---------------------------- MODULE Spec2Model ----------------------------
(***************************************************************************)
(* A model of the Pandora memory engine (backend/pandora_engine.py) and    *)
(* of the request handlers of backend/server.py that call into it.         *)
(*                                                                         *)
(* Texts are tuples of one-character strings, JSON values are tagged       *)
(* tuples, uuid4 identifiers are drawn from a counter, and timestamps and  *)
(* the context_window_usage estimate are left out of records and           *)
(* snapshots.  The engine runs on one asyncio event loop: a step of the    *)
(* model is the code that runs between two awaits that really suspend      *)
(* (the durable-store insert and asyncio.sleep).                           *)
(***************************************************************************)
EXTENDS Integers, Sequences, FiniteSets, TLC

(***************************************************************************)
(* Bounds of the model.                                                    *)
(***************************************************************************)
MaxBuf == 2
MaxStarts == 2
MaxRecords == 2
MaxCommits == 1
MaxCadenceTicks == 11
MaxTraverseRecords == 12
MaxDbErrors == 1

(***************************************************************************)
(* Characters and sample texts.                                            *)
(***************************************************************************)
Quote == "\""
NL == "\n"
Whitespace == {" ", NL}
Digits == {"1", "2"}

TextEmptyObj == <<"{", "}">>
TextObj == <<"{", Quote, "a", Quote, ":", "1", "}">>
TextBad == <<"{", "b", "a", "d">>
TextTrailing == <<"{", Quote, "a", Quote, ":", "1", "}", " ", "/", "/", "c">>
TextSlashes == <<"{", Quote, "u", Quote, ":", Quote, "/", "/", Quote, "}">>
TextBadComment == <<"{", "b", " ", "/", "/", "c">>
TextLines == <<"{", NL, Quote, "a", Quote, ":", "2", " ", "/", "/", "c", NL, "}">>
TextNumber == <<"1", "2">>

Texts ==
    { TextEmptyObj, TextObj, TextBad, TextTrailing, TextSlashes,
      TextBadComment, TextLines, TextNumber }

(***************************************************************************)
(* str.split('\n'), str.index('//') and '\n'.join of strip_comments.       *)
(***************************************************************************)
\* the least index of a set of indices, 0 when there is none
First(indices) ==
    IF indices = {} THEN 0 ELSE CHOOSE i \in indices : \A j \in indices : i <= j

RECURSIVE SplitLines(_)
SplitLines(s) ==
    LET i == First({k \in 1..Len(s) : s[k] = NL})
    IN  IF i = 0
        THEN <<s>>
        ELSE <<SubSeq(s, 1, i - 1)>> \o SplitLines(SubSeq(s, i + 1, Len(s)))

RECURSIVE JoinLines(_)
JoinLines(lines) ==
    IF Len(lines) = 0 THEN <<>>
    ELSE IF Len(lines) = 1 THEN lines[1]
    ELSE lines[1] \o <<NL>> \o JoinLines(Tail(lines))

StripLine(line) ==
    LET i == First({k \in 1..(Len(line) - 1) : line[k] = "/" /\ line[k + 1] = "/"})
    IN  IF i # 0 THEN SubSeq(line, 1, i - 1) ELSE line

strip_comments(json_str, comment_strip_flag) ==
    IF ~comment_strip_flag
    THEN json_str
    ELSE LET lines == SplitLines(json_str)
         IN  JoinLines([i \in 1..Len(lines) |-> StripLine(lines[i])])

(***************************************************************************)
(* json.loads on the JSON subset of the sample texts: objects, strings and *)
(* numbers.  A parse yields [ok, next, val, err]; val is a tagged tuple:   *)
(* <<"obj", members>> with members a sequence of <<key, value>> pairs,     *)
(* <<"text", characters>>, <<"num", n>>.  Strings the engine writes itself *)
(* are <<"str", string>>, formatted ones <<"f", template, arguments...>>.  *)
(***************************************************************************)
NoValue == <<"none">>
ParseOk(n, v) == [ok |-> TRUE, next |-> n, val |-> v, err |-> ""]
ParseErr(n, msg) == [ok |-> FALSE, next |-> n, val |-> NoValue, err |-> msg]

RECURSIVE SkipWs(_, _)
SkipWs(s, i) ==
    IF i <= Len(s) /\ s[i] \in Whitespace THEN SkipWs(s, i + 1) ELSE i

RECURSIVE NumberEnd(_, _)
NumberEnd(s, i) ==
    IF i <= Len(s) /\ s[i] \in Digits THEN NumberEnd(s, i + 1) ELSE i

DigitVal(c) == IF c = "1" THEN 1 ELSE 2

RECURSIVE NumVal(_)
NumVal(ds) ==
    IF Len(ds) = 0 THEN 0
    ELSE 10 * NumVal(SubSeq(ds, 1, Len(ds) - 1)) + DigitVal(ds[Len(ds)])

\* s[i] is the opening quote
ParseString(s, i) ==
    LET j == First({k \in (i + 1)..Len(s) : s[k] \in {Quote, NL}})
    IN  IF j = 0 THEN ParseErr(i, "Unterminated string starting at")
        ELSE IF s[j] = NL THEN ParseErr(j, "Invalid control character at")
        ELSE ParseOk(j + 1, <<"text", SubSeq(s, i + 1, j - 1)>>)

\* the characters of a property name as one string
RECURSIVE Concat(_)
Concat(chars) ==
    IF Len(chars) = 0 THEN "" ELSE Head(chars) \o Concat(Tail(chars))

\* dict[key] = value: a repeated key keeps its place and takes the new value
SetMember(members, key, v) ==
    LET at == First({k \in 1..Len(members) : members[k][1] = key})
    IN  IF at = 0 THEN Append(members, <<key, v>>)
        ELSE [members EXCEPT ![at] = <<key, v>>]

RECURSIVE ParseValue(_, _)
RECURSIVE ParseMembers(_, _, _)

\* s[i] should open a property name
ParseMembers(s, i, members) ==
    IF i > Len(s) \/ s[i] # Quote
    THEN ParseErr(i, "Expecting property name enclosed in double quotes")
    ELSE LET key == ParseString(s, i)
         IN  IF ~key.ok THEN key
             ELSE LET c == SkipWs(s, key.next)
                  IN  IF c > Len(s) \/ s[c] # ":"
                      THEN ParseErr(c, "Expecting ':' delimiter")
                      ELSE LET v == ParseValue(s, SkipWs(s, c + 1))
                           IN  IF ~v.ok THEN v
                               ELSE LET e == SkipWs(s, v.next)
                                        ms == SetMember(members, Concat(key.val[2]), v.val)
                                    IN  IF e <= Len(s) /\ s[e] = "}"
                                        THEN ParseOk(e + 1, <<"obj", ms>>)
                                        ELSE IF e <= Len(s) /\ s[e] = ","
                                        THEN ParseMembers(s, SkipWs(s, e + 1), ms)
                                        ELSE ParseErr(e, "Expecting ',' delimiter")

ParseValue(s, i) ==
    IF i > Len(s) THEN ParseErr(i, "Expecting value")
    ELSE IF s[i] = Quote THEN ParseString(s, i)
    ELSE IF s[i] = "{"
         THEN LET m == SkipWs(s, i + 1)
              IN  IF m <= Len(s) /\ s[m] = "}"
                  THEN ParseOk(m + 1, <<"obj", <<>>>>)
                  ELSE ParseMembers(s, m, <<>>)
    ELSE IF s[i] \in Digits
         THEN LET e == NumberEnd(s, i)
              IN  ParseOk(e, <<"num", NumVal(SubSeq(s, i, e - 1))>>)
    ELSE ParseErr(i, "Expecting value")

json_loads(s) ==
    LET v == ParseValue(s, SkipWs(s, 1))
    IN  IF ~v.ok THEN v
        ELSE LET e == SkipWs(s, v.next)
             IN  IF e <= Len(s) THEN ParseErr(e, "Extra data") ELSE v

(***************************************************************************)
(* State.                                                                  *)
(***************************************************************************)
VARIABLES
    buffer,             \* FloJsonOutputCollector.buffer
    strict_mode,        \* FloJsonOutputCollector.strict_mode
    comment_strip,      \* FloJsonOutputCollector.comment_strip
    reverse_order,      \* FloJsonOutputCollector.reverse_order
    memory_lines,       \* PandoraMemoryEngine.memory_lines, the ledger
    breath_cycle_count, \* PandoraMemoryEngine.breath_cycle_count
    is_running,         \* PandoraMemoryEngine.is_running
    memory_reel,        \* PandoraMemoryEngine.memory_reel, as loaded
    config,             \* PandoraMemoryEngine.config, as loaded
    next_id,            \* the source of uuid4 identifiers
    pc,                 \* per call of start_runtime: where the call, then its breath task, stands
    trav,               \* the introspective_traversal call in flight
    db,                 \* the documents of db.pandora_memory, ordered by id
    file_mnt,           \* /mnt/data/qinfinity_memory.json
    file_app,           \* /app/data/qinfinity_memory.json
    commit_log,         \* every commit_memory_snapshot call so far: what failed, what it returned
    ticks_completed,    \* the breath ticks that have reached their sleep
    ret                 \* the last value returned to a caller: <<operation, argument, value>>

collector_vars == <<buffer, strict_mode, comment_strip, reverse_order>>
ledger_vars == <<memory_lines, breath_cycle_count, next_id>>
load_vars == <<memory_reel, config>>
file_vars == <<file_mnt, file_app, commit_log>>
vars ==
    <<buffer, strict_mode, comment_strip, reverse_order, memory_lines,
      breath_cycle_count, is_running, memory_reel, config, next_id, pc, trav,
      db, file_mnt, file_app, commit_log, ticks_completed, ret>>

None == <<"None">>
NoCall == <<"none", None, None>>

Obj(members) == <<"obj", members>>
Str(string) == <<"str", string>>
Text(chars) == <<"text", chars>>

\* dict.get(key, default) of an object value
Get(obj, key, default) ==
    LET at == First({k \in 1..Len(obj[2]) : obj[2][k][1] = key})
    IN  IF at = 0 THEN default ELSE obj[2][at][2]

HasKey(obj, key) == \E k \in 1..Len(obj[2]) : obj[2][k][1] = key

(***************************************************************************)
(* FloJsonOutputCollector.  Each method is an operator of the buffer and   *)
(* the flags it reads; a method that changes the buffer yields             *)
(* [buffer, value].                                                        *)
(***************************************************************************)
peek(buf) == IF buf # <<>> THEN buf[Len(buf)] ELSE None

\* a pop that takes the head of the list: list.pop(0)
pop_head(buf) ==
    IF buf # <<>>
    THEN [buffer |-> SubSeq(buf, 2, Len(buf)), value |-> buf[1]]
    ELSE [buffer |-> buf, value |-> None]

pop(buf) ==
    IF buf # <<>>
    THEN [buffer |-> SubSeq(buf, 1, Len(buf) - 1), value |-> buf[Len(buf)]]
    ELSE [buffer |-> buf, value |-> None]

\* list[-n:] for n > 0 and list[:n] for n >= 0
SliceLast(list, n) ==
    SubSeq(list, (IF Len(list) - n < 0 THEN 0 ELSE Len(list) - n) + 1, Len(list))
SliceFirst(list, n) ==
    SubSeq(list, 1, IF n < Len(list) THEN n ELSE Len(list))

Reversed(list) == [i \in 1..Len(list) |-> list[Len(list) + 1 - i]]

\* a fetch that slices from the head whatever the direction
fetch_from_head(buf, depth, reverse) ==
    IF depth <= 0 \/ buf = <<>> THEN <<>> ELSE SliceFirst(buf, depth)

fetch(buf, depth, reverse) ==
    IF depth <= 0 \/ buf = <<>>
    THEN <<>>
    ELSE IF reverse THEN SliceLast(buf, depth) ELSE SliceFirst(buf, depth)

\* a collect that keeps the stripped text as the partial state
collect_cleaned(buf, data, strict, strip) ==
    IF data[1] = "text"
    THEN LET cleaned_data == strip_comments(data[2], strip)
             parsed == json_loads(cleaned_data)
         IN  IF parsed.ok
             THEN [buffer |-> Append(buf, parsed.val), value |-> TRUE]
             ELSE IF ~strict
             THEN [buffer |-> Append(buf, Obj(<< <<"partial_state", Text(cleaned_data)>>,
                                                 <<"error", Str(parsed.err)>> >>)),
                   value |-> TRUE]
             ELSE [buffer |-> buf, value |-> FALSE]
    ELSE [buffer |-> Append(buf, data), value |-> TRUE]

\* a collect that compacts the buffer: it drops the degraded entries before
\* it appends
collect_compacting(buf, data, strict, strip) ==
    LET kept == SelectSeq(buf, LAMBDA e : ~(e[1] = "obj" /\ HasKey(e, "partial_state")))
    IN  IF data[1] = "text"
        THEN LET cleaned_data == strip_comments(data[2], strip)
                 parsed == json_loads(cleaned_data)
             IN  IF parsed.ok
                 THEN [buffer |-> Append(kept, parsed.val), value |-> TRUE]
                 ELSE IF ~strict
                 THEN [buffer |-> Append(kept, Obj(<< <<"partial_state", Text(data[2])>>,
                                                     <<"error", Str(parsed.err)>> >>)),
                       value |-> TRUE]
                 ELSE [buffer |-> buf, value |-> FALSE]
        ELSE [buffer |-> Append(kept, data), value |-> TRUE]

\* data is Text(characters) for a str and an object value for a dict
collect(buf, data, strict, strip) ==
    IF data[1] = "text"
    THEN LET cleaned_data == strip_comments(data[2], strip)
             parsed == json_loads(cleaned_data)
         IN  IF parsed.ok
             THEN [buffer |-> Append(buf, parsed.val), value |-> TRUE]
             ELSE IF ~strict
             THEN [buffer |-> Append(buf, Obj(<< <<"partial_state", Text(data[2])>>,
                                                 <<"error", Str(parsed.err)>> >>)),
                   value |-> TRUE]
             ELSE [buffer |-> buf, value |-> FALSE]
    ELSE [buffer |-> Append(buf, data), value |-> TRUE]

\* a loop that stops one entry short: idx > 0, idx < len - 1
RECURSIVE IterLoopShort(_, _, _, _)
IterLoopShort(buf, reverse, idx, result) ==
    IF (IF reverse THEN idx > 0 ELSE idx < Len(buf) - 1)
    THEN IterLoopShort(buf, reverse, IF reverse THEN idx - 1 ELSE idx + 1,
                       Append(result, buf[idx + 1]))
    ELSE result

\* the while loop of iter_q; idx counts from 0 as in the code
RECURSIVE IterLoop(_, _, _, _)
IterLoop(buf, reverse, idx, result) ==
    IF (IF reverse THEN idx >= 0 ELSE idx < Len(buf))
    THEN IterLoop(buf, reverse, IF reverse THEN idx - 1 ELSE idx + 1,
                  Append(result, buf[idx + 1]))
    ELSE result

iter_q(buf, hybrid_mode, reverse) ==
    IF ~hybrid_mode
    THEN IF reverse THEN Reversed(buf) ELSE buf
    ELSE IterLoop(buf, reverse, IF reverse THEN Len(buf) - 1 ELSE 0, <<>>)

(***************************************************************************)
(* Program constants and loaded data.                                      *)
(***************************************************************************)
CommitInterval == 10
PreviewLen == 100
ResultsLimit == 10

semantic_tags == <<"ancestral", "emotional", "symbolic">>

F(template, arg) == <<"f", template, arg>>

\* pandora_memory_reel.json: absent (or unreadable), or two stage descriptors,
\* the second without identity and memory
ReelEmpty == <<>>
ReelTwo ==
    << Obj(<< <<"stage", "genesis">>, <<"state", "seed">>,
              <<"identity", "Pandora">>, <<"memory", <<Str("origin")>>>> >>),
       Obj(<< <<"stage", "awakening">>, <<"state", "awake">> >>) >>
Reels == {ReelEmpty, ReelTwo}

\* this-then.yaml: absent, or a mapping
ConfigEmpty == Obj(<<>>)
Configs == {ConfigEmpty}

\* the request bodies given to promise_then_this_chain, with their str()
InputEmpty == Obj(<<>>)
InputTest == Obj(<< <<"test", Str("data")>> >>)
InputLong ==
    Obj(<< <<"k", Str("xxxxxxxxxxxxxxxxxxxxxxxxxxxxxxxxxxxxxxxxxxxxxxxxxxxxxxxxxxxxxxxxxxxxxxxxxxxxxxxxxxxxxxxxxxxxxxxxxxxx")>> >>)
PromiseInputs == {InputEmpty, InputTest}
StrOf(x) ==
    IF x = InputEmpty THEN <<"{", "}">>
    ELSE IF x = InputTest
    THEN <<"{", "'", "t", "e", "s", "t", "'", ":", " ", "'", "d", "a", "t", "a", "'", "}">>
    ELSE <<"{", "'", "k", "'", ":", " ", "'">> \o [i \in 1..Len(InputLong[2][1][2][2]) |-> "x"]
         \o <<"'", "}">>

Queries == {"test query"}

(***************************************************************************)
(* QInfinityMemoryLine.                                                    *)
(***************************************************************************)
QInfinityMemoryLine(id, stage, state, identity, memory, tags, cycle) ==
    [id |-> id, stage |-> stage, state |-> state, identity |-> identity,
     memory |-> memory, semantic_tags |-> tags, hash_value |-> "inf",
     breath_cycle |-> cycle]

NoLine == QInfinityMemoryLine(0, "", "", "", <<>>, <<>>, 0)

to_dict(line) ==
    [id |-> line.id, stage |-> line.stage, state |-> line.state,
     identity |-> line.identity, memory |-> line.memory,
     semantic_tags |-> line.semantic_tags, hash_value |-> line.hash_value,
     breath_cycle |-> line.breath_cycle]

\* len([line for line in memory_lines if tag in line.semantic_tags])
CountTag(lines, tag) ==
    Cardinality({i \in 1..Len(lines) :
        \E j \in 1..Len(lines[i].semantic_tags) : lines[i].semantic_tags[j] = tag})

CountStage(lines, stages) ==
    Cardinality({i \in 1..Len(lines) : lines[i].stage \in stages})

(***************************************************************************)
(* _persist_memory_line: the insert into db.pandora_memory succeeds, or    *)
(* raises and is logged.                                                   *)
(***************************************************************************)
\* a collection has no order of its own: the documents are kept ordered by id
insert_one(docs, doc) ==
    LET before == Cardinality({i \in 1..Len(docs) : docs[i].id <= doc.id})
    IN  SubSeq(docs, 1, before) \o <<doc>> \o SubSeq(docs, before + 1, Len(docs))

persist_memory_line(line, ok) ==
    db' = IF ok THEN insert_one(db, to_dict(line)) ELSE db

(***************************************************************************)
(* commit_memory_snapshot.  A file holds <<"absent">>, <<"partial">> (it   *)
(* was opened for writing and the dump did not finish) or                  *)
(* <<"snapshot", data>>.  The failures: mkdir or open raises on the first  *)
(* or the second path, or json.dump raises while writing one of them.      *)
(***************************************************************************)
Absent == <<"absent">>
Partial == <<"partial">>
CommitOutcomes == {"none", "open1", "dump1", "open2", "dump2"}

\* a snapshot whose per-tag counts are the length of the ledger
snapshot_data_uncounted ==
    [breath_cycle |-> breath_cycle_count,
     memory_lines |-> [i \in 1..Len(memory_lines) |-> to_dict(memory_lines[i])],
     collector_buffer |-> buffer,
     config |-> config,
     semantic_state |->
        [ancestral |-> Len(memory_lines),
         emotional |-> Len(memory_lines),
         symbolic |-> Len(memory_lines)]]

snapshot_data ==
    [breath_cycle |-> breath_cycle_count,
     memory_lines |-> [i \in 1..Len(memory_lines) |-> to_dict(memory_lines[i])],
     collector_buffer |-> buffer,
     config |-> config,
     semantic_state |->
        [ancestral |-> CountTag(memory_lines, "ancestral"),
         emotional |-> CountTag(memory_lines, "emotional"),
         symbolic |-> CountTag(memory_lines, "symbolic")]]

\* a commit that returns after the first path
commit_result_first_only(fail) ==
    IF fail \in {"none", "open2", "dump2"}
    THEN [mnt |-> <<"snapshot", snapshot_data>>, app |-> file_app, ok |-> fail = "none"]
    ELSE IF fail = "open1" THEN [mnt |-> file_mnt, app |-> file_app, ok |-> FALSE]
    ELSE [mnt |-> Partial, app |-> file_app, ok |-> FALSE]

\* a commit that reports success once a path is written: `return True`
\* inside the for loop
commit_result_returns_early(fail) ==
    IF fail \in {"none", "open2", "dump2"}
    THEN [mnt |-> <<"snapshot", snapshot_data>>, app |-> file_app, ok |-> TRUE]
    ELSE IF fail = "open1" THEN [mnt |-> file_mnt, app |-> file_app, ok |-> FALSE]
    ELSE [mnt |-> Partial, app |-> file_app, ok |-> FALSE]

\* the files after the call, and what it returns
commit_result(fail) ==
    IF fail = "none"
    THEN [mnt |-> <<"snapshot", snapshot_data>>, app |-> <<"snapshot", snapshot_data>>,
          ok |-> TRUE]
    ELSE IF fail = "open1" THEN [mnt |-> file_mnt, app |-> file_app, ok |-> FALSE]
    ELSE IF fail = "dump1" THEN [mnt |-> Partial, app |-> file_app, ok |-> FALSE]
    ELSE IF fail = "open2"
    THEN [mnt |-> <<"snapshot", snapshot_data>>, app |-> file_app, ok |-> FALSE]
    ELSE [mnt |-> <<"snapshot", snapshot_data>>, app |-> Partial, ok |-> FALSE]

commit_memory_snapshot(fail) ==
    /\ file_mnt' = commit_result(fail).mnt
    /\ file_app' = commit_result(fail).app
    /\ commit_log' = Append(commit_log, [fail |-> fail, ok |-> commit_result(fail).ok])

(***************************************************************************)
(* start_runtime, bootstrap_memory and breath_cycle.  pc[k] follows the    *)
(* k-th call of start_runtime and then the task it creates:                *)
(*   idle     the call has not been made                                   *)
(*   boot     in bootstrap_memory, awaiting the insert of reel entry i     *)
(*   loop     suspended before the test of `while self.is_running`: the     *)
(*            task is created and has not run yet, or it is in             *)
(*            asyncio.sleep(breath_interval)                               *)
(*   persist  in a tick, awaiting the insert of its breath line            *)
(*   exit     breath_cycle has returned                                    *)
(***************************************************************************)
Calls == 1..MaxStarts

\* the ledger records that are not bootstrap records
Grown == CountStage(memory_lines, {"breath", "promise_chain", "introspection"})
At(at, i, line) == [at |-> at, i |-> i, line |-> line]

\* a bootstrap that reads the state of a descriptor for its identity
bootstrap_line_mixed(stage_data) ==
    QInfinityMemoryLine(next_id,
                        Get(stage_data, "stage", ""),
                        Get(stage_data, "state", ""),
                        Get(stage_data, "state", ""),
                        Get(stage_data, "memory", <<>>),
                        semantic_tags, 0)

bootstrap_line(stage_data) ==
    QInfinityMemoryLine(next_id,
                        Get(stage_data, "stage", ""),
                        Get(stage_data, "state", ""),
                        Get(stage_data, "identity", ""),
                        Get(stage_data, "memory", <<>>),
                        semantic_tags, 0)

\* one turn of the for loop of bootstrap_memory, up to its await
bootstrap_step(k, i) ==
    /\ memory_lines' = Append(memory_lines, bootstrap_line(memory_reel[i]))
    /\ next_id' = next_id + 1
    /\ pc' = [pc EXCEPT ![k] = At("boot", i, bootstrap_line(memory_reel[i]))]

\* asyncio.create_task(self.breath_cycle())
create_task(k) ==
    /\ pc' = [pc EXCEPT ![k] = At("loop", 0, NoLine)]
    /\ UNCHANGED <<memory_lines, next_id>>

\* a start that bootstraps whatever the ledger holds
start_runtime_always_bootstraps(k) ==
    /\ pc[k].at = "idle"
    /\ \A j \in Calls : j < k => pc[j].at # "idle"
    /\ is_running' = TRUE
    /\ IF memory_reel # <<>>
       THEN bootstrap_step(k, 1)
       ELSE create_task(k)
    /\ UNCHANGED <<collector_vars, breath_cycle_count, load_vars, trav, db,
                   file_vars, ticks_completed, ret>>

start_runtime(k) ==
    /\ pc[k].at = "idle"
    /\ \A j \in Calls : j < k => pc[j].at # "idle"
    /\ is_running' = TRUE
    /\ IF memory_lines = <<>> /\ memory_reel # <<>>
       THEN bootstrap_step(k, 1)
       ELSE create_task(k)
    /\ UNCHANGED <<collector_vars, breath_cycle_count, load_vars, trav, db,
                   file_vars, ticks_completed, ret>>

\* the insert of a bootstrap line returns or raises; the for loop goes on
bootstrap_resume(k, ok) ==
    /\ pc[k].at = "boot"
    /\ persist_memory_line(pc[k].line, ok)
    /\ IF pc[k].i < Len(memory_reel)
       THEN bootstrap_step(k, pc[k].i + 1)
       ELSE create_task(k)
    /\ UNCHANGED <<collector_vars, breath_cycle_count, is_running, load_vars, trav,
                   file_vars, ticks_completed, ret>>

\* the records whose insert into the store is still awaited
InFlight ==
    {pc[k].line : k \in {c \in Calls : pc[c].at \in {"boot", "persist"}}}
        \cup (IF trav.at = "persist" THEN {trav.line} ELSE {})

\* the inserts that have raised: the records _persist_memory_line was given
\* that are not in the store and not awaited
db_errors ==
    Cardinality({i \in 1..Len(memory_lines) :
        /\ memory_lines[i].stage # "promise_chain"
        /\ memory_lines[i] \notin InFlight
        /\ \A j \in 1..Len(db) : db[j].id # memory_lines[i].id})

\* a breath line built before the counter is incremented
breath_line_stale ==
    QInfinityMemoryLine(next_id, "breath", "active_cycle", "Pandora Q Breath",
                        <<F("Cycle {}", breath_cycle_count),
                          Str("Introspective traversal"), Str("Memory braid sync")>>,
                        <<"ancestral">>, breath_cycle_count)

breath_line ==
    QInfinityMemoryLine(next_id, "breath", "active_cycle", "Pandora Q Breath",
                        <<F("Cycle {}", breath_cycle_count + 1),
                          Str("Introspective traversal"), Str("Memory braid sync")>>,
                        <<"ancestral">>, breath_cycle_count + 1)

\* a loop that gives up once an insert has raised
loop_until_error == is_running /\ db_errors = 0

\* a loop that never reads the flag, and one that reads it negated
loop_forever == TRUE
loop_while_stopped == ~is_running

\* the loop condition is read when the task first runs and after each sleep
loop_continues == is_running

\* `while self.is_running:` and the tick up to its first await
breath_cycle_tick(k, maxRecords) ==
    /\ pc[k].at = "loop"
    /\ IF loop_continues
       THEN /\ Grown < maxRecords
            /\ breath_cycle_count' = breath_cycle_count + 1
            /\ memory_lines' = Append(memory_lines, breath_line)
            /\ next_id' = next_id + 1
            /\ pc' = [pc EXCEPT ![k] = At("persist", 0, breath_line)]
       ELSE /\ pc' = [pc EXCEPT ![k] = At("exit", 0, NoLine)]
            /\ UNCHANGED ledger_vars
    /\ UNCHANGED <<collector_vars, is_running, load_vars, trav, db, file_vars,
                   ticks_completed, ret>>

\* `if self.breath_cycle_count % 10 == 0`
commit_due == breath_cycle_count % CommitInterval = 0

\* the insert returns or raises, the snapshot is committed when due, and the
\* task goes to sleep
breath_cycle_resume(k, ok, fail) ==
    /\ pc[k].at = "persist"
    /\ persist_memory_line(pc[k].line, ok)
    /\ IF commit_due
       THEN commit_memory_snapshot(fail)
       ELSE fail = "none" /\ UNCHANGED file_vars
    /\ pc' = [pc EXCEPT ![k] = At("loop", 0, NoLine)]
    /\ ticks_completed' = ticks_completed + 1
    /\ UNCHANGED <<collector_vars, ledger_vars, is_running, load_vars, trav, ret>>

\* stop_runtime; commit_memory_snapshot has no await in it, so the call runs
\* in one step
stop_runtime(fail, maxCommits) ==
    /\ Len(commit_log) < maxCommits
    /\ is_running' = FALSE
    /\ commit_memory_snapshot(fail)
    /\ UNCHANGED <<collector_vars, ledger_vars, load_vars, pc, trav, db,
                   ticks_completed, ret>>

\* POST /pandora/snapshot
commit_pandora_snapshot(fail, maxCommits) ==
    /\ Len(commit_log) < maxCommits
    /\ commit_memory_snapshot(fail)
    /\ ret' = <<"commit_snapshot", None, commit_result(fail).ok>>
    /\ UNCHANGED <<collector_vars, ledger_vars, is_running, load_vars, pc, trav,
                   db, ticks_completed>>

(***************************************************************************)
(* promise_then_this_chain and introspective_traversal.                    *)
(***************************************************************************)

promise_line(input_data) ==
    QInfinityMemoryLine(next_id, "promise_chain", "processing", "Flo-integrated Nexus",
                        <<F("Processing input: {}...", SliceFirst(StrOf(input_data), PreviewLen))>>,
                        semantic_tags, breath_cycle_count)

Step(action, result) == Obj(<< <<"action", Str(action)>>, <<"result", Str(result)>> >>)

promise_result(memory_line) ==
    Obj(<< <<"then", <<"list",
                << Step("process_input", "data collected"),
                   Step("apply_qchain", "chain resolved"),
                   Step("braid_memory", "memory braided"),
                   Step("commit_state", "state committed") >> >> >>,
           <<"this", <<"list",
                << Obj(<< <<"commit", F("breath_cycle = {}", breath_cycle_count)>>,
                          <<"memory", F("runtime {} lines", Len(memory_lines))>> >>),
                   Obj(<< <<"commit", Str("semantic_braid")>>,
                          <<"memory", Str("ancestral-emotional-symbolic tags")>> >>),
                   Obj(<< <<"loopback", Str("promise -> this -> then -> this")>>,
                          <<"reconciled", <<"bool", TRUE>> >> >>) >> >> >>,
           <<"final",
                Obj(<< <<"resolution", Str("this.then().then(this).resolve()")>>,
                       <<"hash", Str("inf")>>,
                       <<"status", Str("fulfilled")>>,
                       <<"runtime", Str("persistent")>>,
                       <<"memory_line_id", <<"uuid", memory_line.id>> >> >>) >> >>)

\* a chain that appends a re-created line, which draws an id of its own
completed_line_recreated(memory_line) ==
    [memory_line EXCEPT !.id = @ + 1,
                        !.state = "completed",
                        !.memory = Append(@, Str("Promise chain resolved successfully"))]

\* a chain that appends its memory line as it was created
completed_line_unamended(memory_line) == memory_line

\* the memory line as it is appended: amended after the result is collected
completed_line(memory_line) ==
    [memory_line EXCEPT !.state = "completed",
                        !.memory = Append(@, Str("Promise chain resolved successfully"))]

promise_then_this_chain(input_data, maxRecords) ==
    LET memory_line == promise_line(input_data)
        result == promise_result(memory_line)
    IN  /\ Grown < maxRecords
        /\ buffer' = collect(buffer, result, strict_mode, comment_strip).buffer
        /\ memory_lines' = Append(memory_lines, completed_line(memory_line))
        /\ next_id' = next_id + 1
        /\ ret' = <<"execute_promise", input_data, result>>
        /\ UNCHANGED <<strict_mode, comment_strip, reverse_order, breath_cycle_count,
                       is_running, load_vars, pc, trav, db, file_vars,
                       ticks_completed>>

NoTraversal == [at |-> "idle", query |-> "", result |-> <<>>, line |-> NoLine]

\* a traversal line that carries the default tags of the other operations
traversal_line_default_tags(query, traversal_result) ==
    QInfinityMemoryLine(next_id, "introspection", "traversal_active", "flo_core.mirror",
                        <<F("Query: {}", query),
                          F("Traversed {} items", Len(traversal_result)),
                          Str("Marshmallow logic applied")>>,
                        semantic_tags, breath_cycle_count)

traversal_line(query, traversal_result) ==
    QInfinityMemoryLine(next_id, "introspection", "traversal_active", "flo_core.mirror",
                        <<F("Query: {}", query),
                          F("Traversed {} items", Len(traversal_result)),
                          Str("Marshmallow logic applied")>>,
                        <<"emotional", "symbolic">>, breath_cycle_count)

\* introspective_traversal up to its await
introspective_traversal(query, maxRecords) ==
    LET traversal_result == iter_q(buffer, TRUE, reverse_order)
        traversal_memory == traversal_line(query, traversal_result)
    IN  /\ trav.at = "idle"
        /\ Grown < maxRecords
        /\ memory_lines' = Append(memory_lines, traversal_memory)
        /\ next_id' = next_id + 1
        /\ trav' = [at |-> "persist", query |-> query, result |-> traversal_result,
                    line |-> traversal_memory]
        /\ UNCHANGED <<collector_vars, breath_cycle_count, is_running, load_vars, pc,
                       db, file_vars, ticks_completed, ret>>

\* a response built from the record the call created
traversal_response_of_record ==
    Obj(<< <<"query", Str(trav.query)>>,
           <<"traversal_items", <<"num", Len(trav.result)>> >>,
           <<"memory_line_id", <<"uuid", trav.line.id>> >>,
           <<"breath_cycle", <<"num", trav.line.breath_cycle>> >>,
           <<"results", <<"list",
                IF Len(trav.result) > ResultsLimit
                THEN SliceLast(trav.result, ResultsLimit)
                ELSE trav.result>> >> >>)

traversal_response ==
    Obj(<< <<"query", Str(trav.query)>>,
           <<"traversal_items", <<"num", Len(trav.result)>> >>,
           <<"memory_line_id", <<"uuid", trav.line.id>> >>,
           <<"breath_cycle", <<"num", breath_cycle_count>> >>,
           <<"results", <<"list",
                IF Len(trav.result) > ResultsLimit
                THEN SliceLast(trav.result, ResultsLimit)
                ELSE trav.result>> >> >>)

\* the insert returns or raises, and the response is built
traversal_resume(ok) ==
    /\ trav.at = "persist"
    /\ persist_memory_line(trav.line, ok)
    /\ ret' = <<"traverse", trav.query, traversal_response>>
    /\ trav' = NoTraversal
    /\ UNCHANGED <<collector_vars, ledger_vars, is_running, load_vars, pc, file_vars,
                   ticks_completed>>

(***************************************************************************)
(* The read operations: get_runtime_status and GET /pandora/memory.  The   *)
(* context_window_usage of the status, a length of the repr of the ledger, *)
(* is left out.                                                            *)
(***************************************************************************)
runtime_status ==
    [status |-> IF is_running THEN "active" ELSE "inactive",
     breath_cycle |-> breath_cycle_count,
     memory_lines |-> Len(memory_lines),
     semantic_distribution |->
        [ancestral |-> CountTag(memory_lines, "ancestral"),
         emotional |-> CountTag(memory_lines, "emotional"),
         symbolic |-> CountTag(memory_lines, "symbolic")],
     last_checkpoint |->
        IF memory_lines # <<>> THEN memory_lines[Len(memory_lines)].stage ELSE "none",
     collector_buffer_size |-> Len(buffer)]

get_runtime_status ==
    /\ ret' = <<"status", None, runtime_status>>
    /\ UNCHANGED <<collector_vars, ledger_vars, is_running, load_vars, pc, trav, db,
                   file_vars, ticks_completed>>

\* list[-n:] for n >= 0: -0 is 0, and list[0:] is the whole list
SliceFromEnd(list, n) ==
    IF n = 0 THEN list ELSE SliceLast(list, n)

\* memory_lines[-limit:] if len(memory_lines) > limit else memory_lines
recent_lines(limit) ==
    IF Len(memory_lines) > limit THEN SliceFromEnd(memory_lines, limit) ELSE memory_lines

\* a handler that keeps only the lines it returns
get_pandora_memory_trimming(limit) ==
    /\ ret' = <<"recent_memory", limit,
                [total_memory_lines |-> Len(memory_lines),
                 returned_lines |-> Len(recent_lines(limit)),
                 memory_lines |->
                    [i \in 1..Len(recent_lines(limit)) |-> to_dict(recent_lines(limit)[i])]]>>
    /\ memory_lines' = recent_lines(limit)
    /\ UNCHANGED <<collector_vars, breath_cycle_count, next_id, is_running, load_vars,
                   pc, trav, db, file_vars, ticks_completed>>

get_pandora_memory(limit) ==
    /\ ret' = <<"recent_memory", limit,
                [total_memory_lines |-> Len(memory_lines),
                 returned_lines |-> Len(recent_lines(limit)),
                 memory_lines |->
                    [i \in 1..Len(recent_lines(limit)) |-> to_dict(recent_lines(limit)[i])]]>>
    /\ UNCHANGED <<collector_vars, ledger_vars, is_running, load_vars, pc, trav, db,
                   file_vars, ticks_completed>>

(***************************************************************************)
(* POST /pandora/query.  The handler raises its 400 inside its own         *)
(* try block, whose except clause catches every Exception and raises a 500 *)
(* that carries the text of the caught one.                                *)
(***************************************************************************)
UnknownAction(action) ==
    [status_code |-> 400, detail |-> <<"f", "Unknown action: {}", action>>]

QueryError(e) ==
    [status_code |-> 500, detail |-> <<"f", "Query error: {}", e>>]

pandora_query(query, action, maxRecords) ==
    IF action = "introspect"
    THEN introspective_traversal(query, maxRecords)
    ELSE IF action = "status"
    THEN /\ ret' = <<"query", action, [status_code |-> 200, body |-> runtime_status]>>
         /\ UNCHANGED <<collector_vars, ledger_vars, is_running, load_vars, pc, trav, db,
                        file_vars, ticks_completed>>
    ELSE /\ ret' = <<"query", action, QueryError(UnknownAction(action))>>
         /\ UNCHANGED <<collector_vars, ledger_vars, is_running, load_vars, pc, trav, db,
                        file_vars, ticks_completed>>

(***************************************************************************)
(* The engine after construction, and its behaviours.                      *)
(***************************************************************************)
Init ==
    /\ buffer = <<>>
    /\ strict_mode = FALSE
    /\ comment_strip = TRUE
    /\ reverse_order = TRUE
    /\ memory_lines = <<>>
    /\ breath_cycle_count = 0
    /\ is_running = FALSE
    /\ memory_reel \in Reels
    /\ config \in Configs
    /\ next_id = 1
    /\ pc = [k \in Calls |-> At("idle", 0, NoLine)]
    /\ trav = NoTraversal
    /\ db = <<>>
    /\ file_mnt = Absent
    /\ file_app = Absent
    /\ commit_log = <<>>
    /\ ticks_completed = 0
    /\ ret = NoCall

Start == \E k \in Calls : start_runtime(k)
BootstrapResume == \E k \in Calls : bootstrap_resume(k, TRUE)
Tick == \E k \in Calls : breath_cycle_tick(k, MaxRecords)
TickResume == \E k \in Calls : breath_cycle_resume(k, TRUE, "none")
Stop == stop_runtime("none", MaxCommits)
CommitSnapshot == commit_pandora_snapshot("none", MaxCommits)
Promise == \E x \in PromiseInputs : promise_then_this_chain(x, MaxRecords)
Traverse == \E q \in Queries : introspective_traversal(q, MaxRecords)
TraverseResume == traversal_resume(TRUE)

\* the engine while the durable store and the snapshot files do not fail
Next ==
    \/ Start
    \/ BootstrapResume
    \/ Tick
    \/ TickResume
    \/ Stop
    \/ CommitSnapshot
    \/ Promise
    \/ Traverse
    \/ TraverseResume

Spec == Init /\ [][Next]_vars

(***************************************************************************)
(* The engine, started once, while a snapshot write may fail.              *)
(***************************************************************************)
StopFaulty == \E fail \in CommitOutcomes : stop_runtime(fail, MaxCommits)
CommitSnapshotFaulty == \E fail \in CommitOutcomes : commit_pandora_snapshot(fail, MaxCommits)

StartOnce == start_runtime(1)

NextFiles ==
    \/ StartOnce
    \/ BootstrapResume
    \/ Tick
    \/ TickResume
    \/ StopFaulty
    \/ CommitSnapshotFaulty
    \/ Promise
    \/ Traverse
    \/ TraverseResume

SpecFiles == Init /\ [][NextFiles]_vars

(***************************************************************************)
(* The engine and the requests that read it.                               *)
(***************************************************************************)
Limits == {0, 1, 50}

Status == get_runtime_status
RecentMemory == \E limit \in Limits : get_pandora_memory(limit)

NextLedger ==
    \/ StartOnce
    \/ BootstrapResume
    \/ Tick
    \/ TickResume
    \/ Stop
    \/ CommitSnapshot
    \/ Promise
    \/ Traverse
    \/ TraverseResume
    \/ Status
    \/ RecentMemory

SpecLedger == Init /\ [][NextLedger]_vars

(***************************************************************************)
(* The engine behind the query endpoint: the actions the request model     *)
(* names in its comment and one it does not.                               *)
(***************************************************************************)
UnknownActions == {"promise_chain", "bogus"}

QueryIntrospect == \E q \in Queries : pandora_query(q, "introspect", MaxRecords)
QueryStatus == \E q \in Queries : pandora_query(q, "status", MaxRecords)
QueryUnknown == \E q \in Queries, a \in UnknownActions : pandora_query(q, a, MaxRecords)

NextQuery ==
    \/ StartOnce
    \/ BootstrapResume
    \/ Tick
    \/ TickResume
    \/ Promise
    \/ QueryIntrospect
    \/ TraverseResume
    \/ QueryStatus
    \/ QueryUnknown

SpecQuery == Init /\ [][NextQuery]_vars

(***************************************************************************)
(* The scheduler alone, long enough for the commit cadence to show: the    *)
(* start and stop calls and the breath tasks.                              *)
(***************************************************************************)
CadenceTick == \E k \in Calls : breath_cycle_tick(k, MaxCadenceTicks)

NextCadence ==
    \/ Start
    \/ BootstrapResume
    \/ CadenceTick
    \/ TickResume
    \/ Stop

SpecCadence == Init /\ [][NextCadence]_vars

(***************************************************************************)
(* The scheduler while the store and the snapshot files may fail: an       *)
(* insert raises (and is logged by _persist_memory_line), a commit fails   *)
(* on either path.                                                         *)
(***************************************************************************)
BootstrapResumeFaulty ==
    \E k \in Calls, ok \in BOOLEAN :
        /\ ok \/ db_errors < MaxDbErrors
        /\ bootstrap_resume(k, ok)

TickResumeFaulty ==
    \E k \in Calls, ok \in BOOLEAN, fail \in CommitOutcomes :
        /\ ok \/ db_errors < MaxDbErrors
        /\ breath_cycle_resume(k, ok, fail)

NextFaultyTicks ==
    \/ StartOnce
    \/ BootstrapResumeFaulty
    \/ CadenceTick
    \/ TickResumeFaulty
    \/ Stop

SpecFaultyTicks == Init /\ [][NextFaultyTicks]_vars

(***************************************************************************)
(* The scheduler under the fairness of the event loop: a task that can run *)
(* is run, a sleep ends, and an insert returns or raises.                  *)
(***************************************************************************)
NextLive ==
    \/ Start
    \/ BootstrapResume
    \/ Tick
    \/ TickResume
    \/ Stop

Fairness ==
    \A k \in Calls :
        /\ WF_vars(bootstrap_resume(k, TRUE))
        /\ WF_vars(breath_cycle_tick(k, MaxRecords))
        /\ WF_vars(breath_cycle_resume(k, TRUE, "none"))

SpecLive == Init /\ [][NextLive]_vars /\ Fairness

(***************************************************************************)
(* The collector on its own: every setting of its flags, texts and objects *)
(* collected, and its read operations.                                     *)
(***************************************************************************)
CollectItems == {Text(t) : t \in Texts} \cup {InputEmpty, InputTest}
Depths == (0 - 1)..(MaxBuf + 1)

engine_vars ==
    <<memory_lines, breath_cycle_count, is_running, memory_reel, config, next_id,
      pc, trav, db, file_mnt, file_app, commit_log, ticks_completed>>

InitCollector ==
    /\ buffer = <<>>
    /\ strict_mode \in BOOLEAN
    /\ comment_strip \in BOOLEAN
    /\ reverse_order \in BOOLEAN
    /\ memory_lines = <<>>
    /\ breath_cycle_count = 0
    /\ is_running = FALSE
    /\ memory_reel = ReelEmpty
    /\ config = ConfigEmpty
    /\ next_id = 1
    /\ pc = [k \in Calls |-> At("idle", 0, NoLine)]
    /\ trav = NoTraversal
    /\ db = <<>>
    /\ file_mnt = Absent
    /\ file_app = Absent
    /\ commit_log = <<>>
    /\ ticks_completed = 0
    /\ ret = NoCall

Collect ==
    \E data \in CollectItems :
        /\ Len(buffer) < MaxBuf
        /\ buffer' = collect(buffer, data, strict_mode, comment_strip).buffer
        /\ ret' = <<"collect", data, collect(buffer, data, strict_mode, comment_strip).value>>
        /\ UNCHANGED <<strict_mode, comment_strip, reverse_order, engine_vars>>

Fetch ==
    \E depth \in Depths :
        /\ ret' = <<"fetch", depth, fetch(buffer, depth, reverse_order)>>
        /\ UNCHANGED <<collector_vars, engine_vars>>

IterQ ==
    \E hybrid_mode \in BOOLEAN :
        /\ ret' = <<"iter_q", hybrid_mode, iter_q(buffer, hybrid_mode, reverse_order)>>
        /\ UNCHANGED <<collector_vars, engine_vars>>

Peek ==
    /\ ret' = <<"peek", None, peek(buffer)>>
    /\ UNCHANGED <<collector_vars, engine_vars>>

Pop ==
    /\ buffer' = pop(buffer).buffer
    /\ ret' = <<"pop", None, pop(buffer).value>>
    /\ UNCHANGED <<strict_mode, comment_strip, reverse_order, engine_vars>>

NextCollector ==
    \/ Collect
    \/ Fetch
    \/ IterQ
    \/ Peek
    \/ Pop

SpecCollector == InitCollector /\ [][NextCollector]_vars

(***************************************************************************)
(* The buffer of the engine: the operations of the collector and the       *)
(* engine operations that use it.                                          *)
(***************************************************************************)
BufferItems == {Text(TextBad), InputTest}

CollectItem ==
    \E data \in BufferItems :
        /\ Len(buffer) < MaxBuf
        /\ buffer' = collect(buffer, data, strict_mode, comment_strip).buffer
        /\ ret' = <<"collect", data, collect(buffer, data, strict_mode, comment_strip).value>>
        /\ UNCHANGED <<strict_mode, comment_strip, reverse_order, engine_vars>>

NextBuffer ==
    \/ CollectItem
    \/ Pop
    \/ Promise
    \/ Traverse
    \/ TraverseResume

SpecBuffer == Init /\ [][NextBuffer]_vars

(***************************************************************************)
(* The on-demand operations alone, long enough for the buffer to outgrow   *)
(* the results of a traversal.                                             *)
(***************************************************************************)
PromiseMany == promise_then_this_chain(InputTest, MaxTraverseRecords)
TraverseMany == \E q \in Queries : introspective_traversal(q, MaxTraverseRecords)

NextTraverse ==
    \/ PromiseMany
    \/ TraverseMany
    \/ TraverseResume

SpecTraverse == Init /\ [][NextTraverse]_vars

(***************************************************************************)
(* Properties.                                                             *)
(***************************************************************************)
BreathLines(lines) == CountStage(lines, {"breath"})
ActiveLoops == {k \in Calls : pc[k].at \in {"loop", "persist"}}
TickInFlight == \E k \in Calls : pc[k].at = "persist"

\* C1: whenever no tick is in flight, with T the number of completed ticks,
\* cycle_index is T, the ledger holds exactly T breath records, and the
\* snapshot committer has been invoked at least floor(T / 10) times.
C1_TickCadence ==
    ~TickInFlight =>
        /\ breath_cycle_count = ticks_completed
        /\ BreathLines(memory_lines) = ticks_completed
        /\ Len(commit_log) >= ticks_completed \div CommitInterval

\* C2: under every interleaving of start and stop calls at most one breath
\* task is active (created and not returned) at any time.
C2_SingleLoop == Cardinality(ActiveLoops) <= 1

EngineStages == {"breath", "promise_chain", "introspection"}
BootLines == SelectSeq(memory_lines, LAMBDA line : line.stage \notin EngineStages)
Booting == \E k \in Calls : pc[k].at = "boot"
Last(list) == list[Len(list)]
IsAppend(before, after) ==
    /\ Len(after) = Len(before) + 1
    /\ SubSeq(after, 1, Len(before)) = before

\* C3: the ledger records made by bootstrap are one per reel descriptor, in
\* reel order, with stage, state, identity and memory as in the descriptor
\* and the three default tags; once the bootstrap has returned there are
\* exactly as many as the reel has descriptors.
C3_Bootstrap ==
    /\ Len(BootLines) <= Len(memory_reel)
    /\ \A i \in 1..Len(BootLines) :
        /\ BootLines[i].stage = Get(memory_reel[i], "stage", "")
        /\ BootLines[i].state = Get(memory_reel[i], "state", "")
        /\ BootLines[i].identity = Get(memory_reel[i], "identity", "")
        /\ BootLines[i].memory = Get(memory_reel[i], "memory", <<>>)
        /\ BootLines[i].semantic_tags = <<"ancestral", "emotional", "symbolic">>
    /\ \A k \in Calls : pc[k].at = "boot" => Len(BootLines) = pc[k].i
    /\ (BootLines # <<>> /\ ~Booting) => Len(BootLines) = Len(memory_reel)

\* a bootstrap of two descriptors has returned, and a record of another
\* producer lies between its two records
C3_Witness ==
    /\ ~Booting
    /\ Len(memory_reel) = 2
    /\ Len(BootLines) = 2
    /\ Len(memory_lines) >= 3
    /\ memory_lines[2].stage \in EngineStages
    /\ memory_lines[3].stage \notin EngineStages

PromiseReturned == ret'[1] = "execute_promise" /\ ret' # ret

\* C4: every execute_promise call, whatever its input and the state it is
\* made in, appends exactly one ledger record, of stage promise_chain and
\* state completed, and exactly one buffer entry; no promise_chain record is
\* ever in the ledger in another state than completed.
C4_PromiseAppends ==
    /\ [](\A i \in 1..Len(memory_lines) :
            memory_lines[i].stage = "promise_chain" => memory_lines[i].state = "completed")
    /\ [][PromiseReturned =>
            /\ IsAppend(memory_lines, memory_lines')
            /\ Last(memory_lines').stage = "promise_chain"
            /\ Last(memory_lines').state = "completed"
            /\ IsAppend(buffer, buffer')]_vars

\* execute_promise of the empty object has returned, called while a tick was
\* awaiting its insert
C4_Witness ==
    /\ ret[1] = "execute_promise"
    /\ ret[2] = InputEmpty
    /\ TickInFlight
    /\ Last(memory_lines).stage = "promise_chain"
    /\ Len(buffer) = 1

Min(a, b) == IF a < b THEN a ELSE b

\* the text of a collect call does not parse, as the collector reads it
FailsToParse(data) ==
    /\ data[1] = "text"
    /\ ~json_loads(strip_comments(data[2], comment_strip)).ok

\* C5: collect of a text that fails to parse returns true and appends exactly
\* one entry, holding the text as given under partial_state and a non-empty
\* error, when strict_mode is off; it returns false and leaves the buffer
\* as it is when strict_mode is on.
C5_CollectDegrades ==
    [][(ret'[1] = "collect" /\ FailsToParse(ret'[2])) =>
        IF strict_mode
        THEN ret'[3] = FALSE /\ buffer' = buffer
        ELSE /\ ret'[3] = TRUE
             /\ IsAppend(buffer, buffer')
             /\ Last(buffer')[1] = "obj"
             /\ Get(Last(buffer'), "partial_state", None) = Text(ret'[2][2])
             /\ HasKey(Last(buffer'), "error")
             /\ Get(Last(buffer'), "error", None) # Str("")]_vars

\* a text whose comment is stripped before the parse fails was collected in
\* tolerant mode
C5_Witness ==
    /\ ret = <<"collect", Text(TextBadComment), TRUE>>
    /\ ~strict_mode
    /\ comment_strip
    /\ Len(buffer) = 2

\* what fetch(depth) is to return of a buffer of M entries: nothing for
\* depth <= 0, else its last (reverse) or first min(depth, M) entries
FetchExpected(buf, depth, reverse) ==
    IF depth <= 0
    THEN <<>>
    ELSE [i \in 1..Min(depth, Len(buf)) |->
            IF reverse THEN buf[Len(buf) - Min(depth, Len(buf)) + i] ELSE buf[i]]

\* C6: fetch leaves the buffer as it is, returns nothing for depth <= 0 or an
\* empty buffer, and else returns the last min(depth, M) entries in buffer
\* order when reverse_order is on and the first min(depth, M) when it is off.
C6_Fetch ==
    [][ret'[1] = "fetch" =>
        /\ buffer' = buffer
        /\ ret'[3] = FetchExpected(buffer, ret'[2], reverse_order)
        /\ (ret'[2] <= 0 \/ buffer = <<>>) => ret'[3] = <<>>]_vars

\* fetch(1) of a buffer of two different entries returned the tail alone
C6_Witness ==
    /\ ret[1] = "fetch"
    /\ ret[2] = 1
    /\ reverse_order
    /\ Len(buffer) = 2
    /\ buffer[1] # buffer[2]
    /\ ret[3] = <<buffer[2]>>

\* C7: iterate(hybrid=true) and iterate(hybrid=false) return the same
\* sequence for every buffer and both directions, and neither changes the
\* buffer.
C7_IterateModesAgree ==
    [][ret'[1] = "iter_q" =>
        /\ buffer' = buffer
        /\ ret'[3] = iter_q(buffer, ~ret'[2], reverse_order)]_vars

\* the hybrid loop walked a buffer of two different entries forwards
C7_Witness ==
    /\ ret[1] = "iter_q"
    /\ ret[2] = TRUE
    /\ ~reverse_order
    /\ Len(buffer) = 2
    /\ buffer[1] # buffer[2]
    /\ ret[3] = buffer

CommitCalled == Len(commit_log') = Len(commit_log) + 1

\* C8: a commit_memory_snapshot call in which no write fails returns true
\* and leaves both files with the same content: the cycle index, the whole
\* ledger, the whole buffer, the config and the per-tag counts of the engine
\* at the commit.
C8_SnapshotTwins ==
    [][(CommitCalled /\ Last(commit_log').fail = "none") =>
        /\ Last(commit_log').ok
        /\ file_mnt' = file_app'
        /\ file_mnt' =
            <<"snapshot",
              [breath_cycle |-> breath_cycle_count',
               memory_lines |-> [i \in 1..Len(memory_lines') |-> to_dict(memory_lines'[i])],
               collector_buffer |-> buffer',
               config |-> config',
               semantic_state |->
                  [ancestral |-> CountTag(memory_lines', "ancestral"),
                   emotional |-> CountTag(memory_lines', "emotional"),
                   symbolic |-> CountTag(memory_lines', "symbolic")]]>>]_vars

\* a commit without a failure has written a ledger of bootstrap, breath and
\* promise records and a buffer entry to both files
C8_Witness ==
    /\ commit_log # <<>>
    /\ Last(commit_log).fail = "none"
    /\ file_mnt[1] = "snapshot"
    /\ file_app = file_mnt
    /\ file_mnt[2].breath_cycle = 1
    /\ Len(file_mnt[2].memory_lines) = 4
    /\ Len(file_mnt[2].collector_buffer) = 1
    /\ file_mnt[2].semantic_state.emotional = 3

\* C9: a stop call leaves the state stopped and makes exactly one snapshot
\* commit; a breath task that reaches its loop test while the state is
\* stopped returns; and no step taken while the state is stopped appends a
\* breath record or increments cycle_index.
C9_StopEndsTicks ==
    [][/\ (is_running /\ ~is_running') => CommitCalled
       /\ Stop => (~is_running' /\ CommitCalled)
       /\ \A k \in Calls :
            (~is_running /\ pc[k].at = "loop" /\ pc'[k] # pc[k]) => pc'[k].at = "exit"
       /\ ~is_running =>
            /\ breath_cycle_count' = breath_cycle_count
            /\ BreathLines(memory_lines') = BreathLines(memory_lines)]_vars

\* the engine is stopped after a tick; one breath task has returned and
\* another is still to reach its loop test
C9_Witness ==
    /\ ~is_running
    /\ breath_cycle_count >= 1
    /\ commit_log # <<>>
    /\ \E k \in Calls : pc[k].at = "exit"
    /\ \E k \in Calls : pc[k].at = "loop"

\* C10: under the fair scheduling of the event loop, while the engine stays
\* running every value of cycle_index is followed by a larger one (up to the
\* bound on the ledger's growth).
C10_CycleAdvances ==
    \A n \in 0..(MaxRecords - 1) :
        (is_running /\ breath_cycle_count = n) ~> (~is_running \/ breath_cycle_count > n)

\* the engine is running with two ticks done and a task due for the third
C10_Witness ==
    /\ is_running
    /\ breath_cycle_count = MaxRecords - 1
    /\ ticks_completed = breath_cycle_count
    /\ \E k \in Calls : pc[k].at = "loop"

TraverseCalled == trav.at = "idle" /\ trav'.at = "persist"
TraverseReturned == trav.at = "persist" /\ trav'.at = "idle"

\* C11: a traverse(query) call appends exactly one record to the ledger, of
\* stage introspection, tagged emotional and symbolic and nothing else, whose
\* memory log holds the query and the number of buffer items at the call; it
\* leaves the buffer as it is from the call to the return, and the ledger it
\* returns to is longer than the one it was called on.
C11_TraverseAppends ==
    [][/\ TraverseCalled =>
            /\ IsAppend(memory_lines, memory_lines')
            /\ Last(memory_lines').stage = "introspection"
            /\ Last(memory_lines').semantic_tags = <<"emotional", "symbolic">>
            /\ Last(memory_lines').memory[1] = F("Query: {}", trav'.query)
            /\ Last(memory_lines').memory[2] = F("Traversed {} items", Len(buffer))
            /\ Last(memory_lines') = trav'.line
            /\ buffer' = buffer
       /\ TraverseReturned =>
            /\ memory_lines' = memory_lines
            /\ buffer' = buffer
            /\ \E i \in 1..Len(memory_lines) : memory_lines[i] = trav.line
            /\ ret'[1] = "traverse"]_vars

\* a traversal of a buffer of one item has returned; its record follows the
\* promise record in the ledger
C11_Witness ==
    /\ ret[1] = "traverse"
    /\ Len(buffer) = 1
    /\ \E i \in 2..Len(memory_lines) :
        /\ memory_lines[i].stage = "introspection"
        /\ memory_lines[i].memory[2] = F("Traversed {} items", 1)
        /\ memory_lines[i - 1].stage = "promise_chain"

Elements(list) == {list[i] : i \in 1..Len(list)}

\* the entries collected last among the first n of the buffer, ResultsLimit
\* of them at most
MostRecent(n) == SubSeq(buffer, IF n > ResultsLimit THEN n - ResultsLimit + 1 ELSE 1, n)

\* C12: the results a traversal returns are the 10 entries collected last
\* among the entries the buffer held at the call, or all of them when it held
\* 10 or fewer.
C12_RecentResults ==
    ret[1] = "traverse" =>
        LET n == Get(ret[3], "traversal_items", None)[2]
            results == Get(ret[3], "results", None)[2]
        IN  /\ Len(results) = Len(MostRecent(n))
            /\ Elements(results) = Elements(MostRecent(n))

IsPrefix(before, after) ==
    /\ Len(before) <= Len(after)
    /\ SubSeq(after, 1, Len(before)) = before

\* C13: every step of the engine and of the requests that read it (start,
\* bootstrap, ticks, stop, promise chains, traversals, snapshot commits,
\* status, recent memory) leaves the ledger it found as a prefix of the
\* ledger it leaves: no record is removed, changed or moved.
C13_LedgerAppendOnly == [][IsPrefix(memory_lines, memory_lines')]_vars

\* the recent-memory request returned one line of a ledger of three or more,
\* and the ledger has grown since
C13_Witness ==
    /\ ret[1] = "recent_memory"
    /\ ret[2] = 1
    /\ ret[3].returned_lines = 1
    /\ ret[3].total_memory_lines >= 3
    /\ Len(memory_lines) > ret[3].total_memory_lines

\* the buffer without its tail
Front(list) == SubSeq(list, 1, Len(list) - 1)

\* C14 as stated: no step shortens the buffer or removes an entry of it.
C14_BufferNeverShrinks == [][IsPrefix(buffer, buffer')]_vars

\* C14, amended: pop is the one operation that removes an entry, and it
\* removes the tail entry alone; every other step of the collector and of the
\* engine leaves the buffer it found as a prefix of the buffer it leaves.
C14_BufferShrinksOnlyByPop ==
    [][/\ Pop => (buffer' = Front(buffer) \/ (buffer = <<>> /\ buffer' = <<>>))
       /\ ~Pop => IsPrefix(buffer, buffer')]_vars

\* a promise chain collected its result after a degraded entry, and the
\* buffer holds both
C14_Witness ==
    /\ ret[1] = "execute_promise"
    /\ Len(buffer) = 2
    /\ buffer[1][1] = "obj"
    /\ HasKey(buffer[1], "partial_state")
    /\ buffer[2] = ret[3]

\* peek returns the tail and changes nothing; pop returns what peek would
\* and removes the tail alone; on an empty buffer both return None
PeekPopTail ==
    /\ ret'[1] = "peek" =>
        /\ buffer' = buffer
        /\ ret'[3] = IF buffer = <<>> THEN None ELSE Last(buffer)
    /\ ret'[1] = "pop" =>
        /\ ret'[3] = IF buffer = <<>> THEN None ELSE Last(buffer)
        /\ buffer' = IF buffer = <<>> THEN <<>> ELSE Front(buffer)

\* a pop that comes right after a collect that returned True
PopAfterCollect == ret'[1] = "pop" /\ ret[1] = "collect" /\ ret[3] = TRUE

\* what collect stores for x: x itself for an object; for a text its parsed
\* value, or the degraded entry holding the text when it does not parse
StoredFor(x) ==
    IF x[1] # "text"
    THEN x
    ELSE IF ~FailsToParse(x)
    THEN json_loads(strip_comments(x[2], comment_strip)).val
    ELSE Obj(<< <<"partial_state", x>>,
                <<"error", Str(json_loads(strip_comments(x[2], comment_strip)).err)>> >>)

\* C15 as stated: peek and pop act on the tail, and a pop right after a
\* successful collect(x) returns x and leaves the buffer collect found.
C15_PeekPopReturnsArgument ==
    [][/\ PeekPopTail
       /\ (ret'[1] = "collect" /\ ret'[3] = TRUE) => IsAppend(buffer, buffer')
       /\ PopAfterCollect => ret'[3] = ret[2]]_vars

\* C15, amended: peek and pop act on the tail, a successful collect(x)
\* appends one entry, and a pop right after it returns that entry, x itself
\* when x is an object and the parsed value of x (or the degraded entry made
\* for x) when x is a text, and leaves the buffer collect found.
C15_PeekPopReturnsEntry ==
    [][/\ PeekPopTail
       /\ (ret'[1] = "collect" /\ ret'[3] = TRUE) =>
            /\ IsAppend(buffer, buffer')
            /\ Last(buffer') = StoredFor(ret'[2])
       /\ PopAfterCollect =>
            /\ ret'[3] = StoredFor(ret[2])
            /\ ret[2][1] # "text" => ret'[3] = ret[2]]_vars

\* a pop returned the object collected just before it onto an entry that is
\* still in the buffer
C15_Witness ==
    /\ ret[1] = "pop"
    /\ ret[3] = InputTest
    /\ Len(buffer) = 1
    /\ buffer[1] # InputTest

\* every ledger record whose insert is not awaited is in the store, once
Mirrored ==
    /\ \A i \in 1..Len(memory_lines) :
        memory_lines[i] \notin InFlight =>
            \E j \in 1..Len(db) : db[j] = to_dict(memory_lines[i])
    /\ \A i, j \in 1..Len(db) : db[i].id = db[j].id => i = j

\* C16: while the store does not fail, every step leaves each ledger record,
\* whichever operation appended it, either with its insert still awaited or
\* in the store exactly once, and no step removes or changes a document of
\* the store.
C16_LedgerMirrored ==
    [][/\ Mirrored'
       /\ \A j \in 1..Len(db) : \E i \in 1..Len(db') : db'[i] = db[j]]_vars

\* the outcome of the commit a step has made
Committed == Last(commit_log')

\* C17: in a commit where only the write of one target fails, the other
\* target is written all the same: a failure on the first path leaves the
\* second file holding the snapshot, and a failure on the second leaves the
\* first file holding it.
C17_IndependentWrites ==
    [][CommitCalled =>
        /\ Committed.fail \in {"open1", "dump1"} => file_app' = <<"snapshot", snapshot_data'>>
        /\ Committed.fail \in {"open2", "dump2"} => file_mnt' = <<"snapshot", snapshot_data'>>]_vars

\* C18: a commit in which a write fails returns false, having written the
\* first target, or none, or part of one, and leaves the ledger, the buffer,
\* the cycle index and (but for the stop that calls it) the running flag as
\* they were; a commit returns true only when both targets hold the
\* snapshot; the request handler returns that boolean.
C18_CommitReports ==
    [][CommitCalled =>
        /\ Committed.fail # "none" => ~Committed.ok
        /\ Committed.ok =>
            /\ file_mnt' = <<"snapshot", snapshot_data'>>
            /\ file_app' = <<"snapshot", snapshot_data'>>
        /\ ~Committed.ok =>
            /\ memory_lines' = memory_lines
            /\ buffer' = buffer
            /\ breath_cycle_count' = breath_cycle_count
            /\ is_running' = is_running \/ StopFaulty
            /\ file_app' # <<"snapshot", snapshot_data'>> \/ file_app' = file_app
        /\ ret' # ret => ret' = <<"commit_snapshot", None, Committed.ok>>]_vars

\* the commit request returned false after it wrote the first target alone,
\* on an engine with a ledger and a buffer
C18_Witness ==
    /\ ret = <<"commit_snapshot", None, FALSE>>
    /\ Last(commit_log).fail = "open2"
    /\ file_mnt[1] = "snapshot"
    /\ file_app = Absent
    /\ Len(file_mnt[2].memory_lines) >= 2
    /\ Len(file_mnt[2].collector_buffer) = 1

\* C19: a tick whose insert or snapshot commit fails ends like any other:
\* its record stays in the ledger, cycle_index stays incremented, and its
\* task goes back to the loop test; a task at the loop test starts the next
\* tick while the engine is running, and returns only when it is stopped.
C19_TickErrorsNotFatal ==
    [][\A k \in Calls :
        /\ (pc[k].at = "persist" /\ pc'[k] # pc[k]) =>
            /\ pc'[k].at = "loop"
            /\ memory_lines' = memory_lines
            /\ \E i \in 1..Len(memory_lines') : memory_lines'[i] = pc[k].line
            /\ breath_cycle_count' = breath_cycle_count
            /\ breath_cycle_count' >= pc[k].line.breath_cycle
        /\ (pc[k].at = "loop" /\ pc'[k] # pc[k]) =>
            IF is_running
            THEN pc'[k].at = "persist" /\ breath_cycle_count' = breath_cycle_count + 1
            ELSE pc'[k].at = "exit"]_vars

\* the engine is running its eleventh tick after an insert of a breath
\* record raised and the commit of the tenth tick failed
C19_Witness ==
    /\ is_running
    /\ breath_cycle_count = 11
    /\ \E k \in Calls : pc[k].at = "persist"
    /\ commit_log # <<>>
    /\ Last(commit_log).fail # "none"
    /\ \E i \in 1..Len(memory_lines) :
        /\ memory_lines[i].stage = "breath"
        /\ memory_lines[i] \notin InFlight
        /\ \A j \in 1..Len(db) : db[j].id # memory_lines[i].id

\* C20: in every reachable ledger all bootstrap records come before the
\* first breath record: no breath record precedes a bootstrap record.
C20_BootstrapBeforeTicks ==
    \A i, j \in 1..Len(memory_lines) :
        (memory_lines[i].stage = "breath" /\ memory_lines[j].stage \notin EngineStages)
            => j < i

\* a text without its //-comments, the strings of the text left whole
RECURSIVE CommentFree(_, _, _)
CommentFree(s, i, inString) ==
    IF i > Len(s)
    THEN <<>>
    ELSE IF ~inString /\ i < Len(s) /\ s[i] = "/" /\ s[i + 1] = "/"
    THEN LET nl == First({k \in i..Len(s) : s[k] = NL})
         IN  IF nl = 0 THEN <<>> ELSE CommentFree(s, nl, FALSE)
    ELSE <<s[i]>> \o CommentFree(s, i + 1, IF s[i] = Quote THEN ~inString ELSE inString)

\* the text is well-formed JSON, with or without trailing //-comments
WellFormed(data) == data[1] = "text" /\ json_loads(CommentFree(data[2], 1, FALSE)).ok

\* C21: with comment_strip on, collect of a text that is well-formed JSON,
\* with or without trailing //-comments and with or without '//' inside its
\* strings, appends the value the JSON denotes, never a degraded entry.
C21_WellFormedParsed ==
    [][(ret'[1] = "collect" /\ comment_strip /\ WellFormed(ret'[2])) =>
        /\ IsAppend(buffer, buffer')
        /\ Last(buffer') = json_loads(CommentFree(ret'[2][2], 1, FALSE)).val
        /\ ~(Last(buffer')[1] = "obj" /\ HasKey(Last(buffer'), "partial_state"))]_vars

\* the breath records of the ledger, in ledger order
Breaths == SelectSeq(memory_lines, LAMBDA line : line.stage = "breath")

\* C22: in every state another operation can observe, cycle_index is the
\* number of breath records in the ledger, and the i-th breath record of the
\* ledger carries cycle index i: the values 1, 2, ..., cycle_index, in
\* increasing order and without duplicates, also while two tick loops run.
C22_CycleIndexCountsBreaths ==
    /\ breath_cycle_count = Len(Breaths)
    /\ \A i \in 1..Len(Breaths) : Breaths[i].breath_cycle = i

\* two tick loops are each in a tick, awaiting the insert of the breath
\* records 1 and 2
C22_Witness ==
    /\ breath_cycle_count = 2
    /\ \E k1, k2 \in Calls :
        /\ k1 # k2
        /\ pc[k1].at = "persist" /\ pc[k1].line.breath_cycle = 1
        /\ pc[k2].at = "persist" /\ pc[k2].line.breath_cycle = 2

\* the buffer entries that promise_then_this_chain produced
PromiseEntries == {i \in 1..Len(buffer) : buffer[i][1] = "obj" /\ HasKey(buffer[i], "final")}

\* the ledger positions of the promise_chain record an entry names
RecordsOf(entry) ==
    {j \in 1..Len(memory_lines) :
        /\ memory_lines[j].stage = "promise_chain"
        /\ <<"uuid", memory_lines[j].id>>
              = Get(Get(entry, "final", None), "memory_line_id", None)}

\* C23: in every state another operation can observe, each buffer entry
\* that execute_promise produced names, in final.memory_line_id, the id of
\* exactly one promise_chain record of the ledger: no step of another
\* operation falls between its buffer append and its ledger append.
C23_PromiseAtomic ==
    \A i \in PromiseEntries : Cardinality(RecordsOf(buffer[i])) = 1

\* a promise chain ran while a tick was awaiting its insert: its record
\* follows the breath record of that tick, and its entry names it
C23_Witness ==
    /\ PromiseEntries = {1}
    /\ Len(memory_lines) >= 2
    /\ Last(memory_lines).stage = "promise_chain"
    /\ RecordsOf(buffer[1]) = {Len(memory_lines)}
    /\ \E k \in Calls :
        /\ pc[k].at = "persist"
        /\ pc[k].line = memory_lines[Len(memory_lines) - 1]

\* the breath records that follow the record of the traversal in flight
TicksSince ==
    Cardinality({j \in 1..Len(memory_lines) :
        /\ memory_lines[j].stage = "breath"
        /\ \E i \in 1..(j - 1) : memory_lines[i] = trav.line})

\* C24 as stated: the cycle index a traversal returns is the one stored in
\* the record that traversal appended.
C24_ReturnsRecordCycle ==
    [][TraverseReturned =>
        Get(ret'[3], "breath_cycle", None) = <<"num", trav.line.breath_cycle>>]_vars

\* C24, amended: the cycle index a traversal returns is the engine's when the
\* call returns: the one stored in its record plus the number of ticks that
\* began while it awaited its insert, so never less, and the same when no
\* tick began in between.
C24_ReturnsCurrentCycle ==
    [][TraverseReturned =>
        /\ Get(ret'[3], "breath_cycle", None) = <<"num", breath_cycle_count'>>
        /\ breath_cycle_count' = trav.line.breath_cycle + TicksSince
        /\ Get(ret'[3], "memory_line_id", None) = <<"uuid", trav.line.id>>]_vars

\* a traversal returned cycle index 1 for a record that holds 0: a tick began
\* while it awaited its insert
C24_Witness ==
    /\ ret[1] = "traverse"
    /\ Get(ret[3], "breath_cycle", None) = <<"num", 1>>
    /\ \E i \in 1..Len(memory_lines) :
        /\ <<"uuid", memory_lines[i].id>> = Get(ret[3], "memory_line_id", None)
        /\ memory_lines[i].stage = "introspection"
        /\ memory_lines[i].breath_cycle = 0

\* C25: the ledger never holds more bootstrap records than the reel has
\* descriptors, and never two for the same descriptor, whatever the
\* interleaving of start calls, stop and the on-demand operations.
C25_BootstrapOnce ==
    /\ Len(BootLines) <= Len(memory_reel)
    /\ \A i \in 1..Len(BootLines) : BootLines[i].stage = Get(memory_reel[i], "stage", "")

\* a second start came while the first was awaiting the insert of its first
\* bootstrap record; both calls are past their bootstrap and the ledger
\* holds one record for each of the two descriptors
C25_Witness ==
    /\ Len(memory_reel) = 2
    /\ Len(BootLines) = 2
    /\ \A k \in Calls : pc[k].at \in {"loop", "persist", "exit"}
    /\ \E i \in 1..Len(memory_lines) :
        /\ memory_lines[i].stage = "breath"
        /\ i < Len(memory_lines)
        /\ memory_lines[i + 1].stage = "awakening"

\* a file holds no snapshot, or one that is a cut of one engine state: its
\* breath_cycle is the number of its breath records and its per-tag counts
\* are those of its records
ConsistentCut(file) ==
    file[1] = "snapshot" =>
        /\ file[2].breath_cycle = CountStage(file[2].memory_lines, {"breath"})
        /\ file[2].semantic_state =
            [ancestral |-> CountTag(file[2].memory_lines, "ancestral"),
             emotional |-> CountTag(file[2].memory_lines, "emotional"),
             symbolic |-> CountTag(file[2].memory_lines, "symbolic")]

\* the target holds every record of the ledger, in ledger order
HoldsLedger(file) ==
    /\ file[1] = "snapshot"
    /\ file[2].memory_lines = [i \in 1..Len(memory_lines) |-> to_dict(memory_lines[i])]

\* C26: every snapshot a commit writes is a consistent cut, whether the
\* commit then fails on the other target or not, and the targets a stop call
\* has written hold every record that is in the ledger when it returns.
C26_SnapshotConsistent ==
    [][/\ ConsistentCut(file_mnt')
       /\ ConsistentCut(file_app')
       /\ (StopFaulty /\ Committed.fail \in {"none", "open2", "dump2"}) => HoldsLedger(file_mnt)'
       /\ (StopFaulty /\ Committed.fail = "none") => HoldsLedger(file_app)']_vars

\* a stop wrote its snapshot to the first target and failed on the second;
\* the snapshot holds a bootstrap, a breath and a promise record
C26_Witness ==
    /\ ~is_running
    /\ commit_log # <<>>
    /\ Last(commit_log).fail = "dump2"
    /\ file_app = Partial
    /\ HoldsLedger(file_mnt)
    /\ file_mnt[2].breath_cycle = 1
    /\ CountStage(memory_lines, {"promise_chain"}) = 1
    /\ Len(BootLines) >= 1

\* a status query and a query with an unknown action change neither the
\* ledger nor the buffer
QueriesReadOnly ==
    (QueryUnknown \/ QueryStatus) =>
        /\ memory_lines' = memory_lines
        /\ buffer' = buffer

\* C27: a query whose action is neither introspect nor status is answered
\* with status 400 and changes neither the ledger nor the buffer; a status
\* query changes neither; so of the queries only introspect appends a record.
C27_UnknownActionIs400 ==
    [][/\ QueryUnknown => ret'[3].status_code = 400
       /\ QueriesReadOnly]_vars

\* the last n records of the ledger, in ledger order, as the request returns them
LastRecords(n) ==
    [i \in 1..n |-> to_dict(memory_lines[Len(memory_lines) - n + i])]

\* C28: the recent-memory request with a limit >= 0 returns min(limit, ledger
\* size) records, none for limit 0; they are the last records of the ledger
\* in ledger order; total_memory_lines is the ledger size; the ledger is
\* unchanged.
C28_RecentMemory ==
    [][RecentMemory =>
        LET n == Min(ret'[2], Len(memory_lines)) IN
        /\ memory_lines' = memory_lines
        /\ ret'[3].total_memory_lines = Len(memory_lines)
        /\ ret'[3].returned_lines = n
        /\ ret'[3].memory_lines = LastRecords(n)]_vars

=============================================================================
